---- MODULE Spec2Model ----
(***************************************************************************)
(* Model of the RAG orchestration of the EORA chat bot:                    *)
(*   app/llm/rag_manager.py      RAGManager (initialize_services,          *)
(*                               process_query)                            *)
(*   app/vector/embedding_service.py  EmbeddingService.generate_embedding  *)
(*   app/vector/pinecone_client.py    PineconeClient.search_similar        *)
(*   app/llm/llm_service.py           LLMService.generate_response         *)
(*                                                                         *)
(* One RAGManager serves one process_query invocation at a time.  Each     *)
(* blocking call to an external provider (OpenAI embeddings, Pinecone      *)
(* query, OpenAI chat completion) is split into the step that issues the   *)
(* call and the step in which the provider answers; the provider's answer  *)
(* is a nondeterministic input.                                            *)
(*                                                                         *)
(* Scores are cosine similarities scaled by 100 (0.35 is 35).  A text is   *)
(* abstracted to [ws, body]: ws leading whitespace characters followed by  *)
(* body non-whitespace characters.                                         *)
(***************************************************************************)
EXTENDS Integers, Sequences, FiniteSets, TLC

\* ------------------------------------------------------------------ bounds
NumDocs == 3
MaxTopK == 3
MaxWs == 1
MaxOver == 1
MaxInvocations == 2
MaxPieces == 3
NumUsers == 1
MaxInstances == 2
MaxRequests == 2
MaxMessages == 2
MaxSessions == 2
MaxClock == 38

\* ------------------------------------------------------- program constants
RelevanceThreshold == 35
FallbackCount == 2
max_length == 8000
max_retries == 3
ActiveHours == 24

\* ---------------------------------------------------------- value universe
NoneVal == [kind |-> "None"]
Str(s) == [kind |-> "str", val |-> s]
List(s) == [kind |-> "list", val |-> s]
\* a function that has not returned yet
NotCalled == [kind |-> "not_called"]

\* Python truthiness of None, a str and a list
Truthy(v) ==
    CASE v.kind = "None" -> FALSE
      [] v.kind = "str" -> v.val # ""
      [] v.kind = "list" -> Len(v.val) > 0

Min(a, b) == IF a < b THEN a ELSE b

Levels == {"simple", "medium", "hard"}
TopKs == 1..MaxTopK
BodyLens == {0, 1} \cup ((max_length - 1)..(max_length + MaxOver))
Texts == [ws : 0..MaxWs, body : BodyLens]
EmptyText == [ws |-> 0, body |-> 0]

TextLen(text) == text.ws + text.body
\* str.strip(): the whitespace around the text is removed
Strip(text) == [ws |-> 0, body |-> text.body]
\* text[:n]
Prefix(text, n) ==
    LET w == Min(text.ws, n)
    IN [ws |-> w, body |-> Min(text.body, n - w)]

\* "not text or len(text.strip()) == 0"
IsBlankEmptyOnly(text) == TextLen(text) = 0
IsBlank(text) == TextLen(text) = 0 \/ TextLen(Strip(text)) = 0

\* text that generate_embedding submits to the provider
TruncateOffByOne(text) ==
    IF TextLen(text) > max_length THEN Prefix(text, max_length + 1) ELSE text
TruncateForApi(text) ==
    IF TextLen(text) > max_length THEN Prefix(text, max_length) ELSE text

\* --------------------------------------------------------------- candidates
DocIds == 1..NumDocs
Scores == {10, 35, 36, 52}
Docs == [id : DocIds, score : Scores]

IsDescending(docs) ==
    \A i \in 1..(Len(docs) - 1) : docs[i].score >= docs[i + 1].score
DistinctIds(docs) ==
    \A i, j \in 1..Len(docs) : i # j => docs[i].id # docs[j].id

\* what index.query(vector, top_k, include_metadata) can answer: at most
\* top_k matches with distinct ids, most similar first
RECURSIVE MatchesUpTo(_)
MatchesUpTo(n) ==
    IF n = 0 THEN {<<>>}
    ELSE LET shorter == MatchesUpTo(n - 1)
             longest == {s \in shorter : Len(s) = n - 1}
         IN shorter \cup
            UNION {{Append(s, d) : d \in {x \in Docs : /\ DistinctIds(Append(s, x))
                                                       /\ IsDescending(Append(s, x))}}
                   : s \in longest}

QueryMatches(k) == MatchesUpTo(Min(k, NumDocs))

\* ----------------------------------------------------------- relevance filter
\* [doc for doc in similar_docs if doc.get('score', 0) > 0.35]
AboveThresholdInclusive(docs) == SelectSeq(docs, LAMBDA d : d.score >= RelevanceThreshold)
AboveThreshold(docs) == SelectSeq(docs, LAMBDA d : d.score > RelevanceThreshold)

\* sorted(docs, key=score, reverse=True): stable, equal scores keep their order
RECURSIVE InsertDesc(_, _)
InsertDesc(d, s) ==
    IF s = <<>> THEN <<d>>
    ELSE IF Head(s).score >= d.score THEN <<Head(s)>> \o InsertDesc(d, Tail(s))
    ELSE <<d>> \o s

RECURSIVE SortedDescFrom(_, _)
SortedDescFrom(docs, acc) ==
    IF docs = <<>> THEN acc
    ELSE SortedDescFrom(Tail(docs), InsertDesc(Head(docs), acc))

SortedDesc(docs) == SortedDescFrom(docs, <<>>)

\* sorted(similar_docs, ..., reverse=True)[:2]
TopOne(docs) == SubSeq(SortedDesc(docs), 1, Min(1, Len(docs)))
TopTwo(docs) == SubSeq(SortedDesc(docs), 1, Min(FallbackCount, Len(docs)))

NoFallback(docs) == AboveThreshold(docs)
FilterPlusFallback(docs) == AboveThreshold(docs) \o TopTwo(docs)
RelevanceFilter(docs) ==
    IF Len(AboveThreshold(docs)) = 0 THEN TopTwo(docs) ELSE AboveThreshold(docs)

\* ---------------------------------------------------------- context formatter
\* Metadata of a candidate: every indexed case carries these fields; the
\* value of a field is an atom of its own, none is part of another.
Meta(field, id) == [field |-> field, doc |-> id]
Title(id) == Meta("title", id)
Client(id) == Meta("client", id)
Description(id) == Meta("description", id)
Technologies(id) == Meta("technologies", id)
Url(id) == Meta("url", id)

\* "if complexity_level in ['medium', 'hard']"
IncludesSourceHardOnly(level) == level = "hard"
IncludesSource(level) == level \in {"medium", "hard"}

\* one case_text of _format_context, as its lines
CaseText(i, case, level) ==
    << [label |-> "Project", n |-> i, score |-> case.score, text |-> Title(case.id)],
       [label |-> "Client", text |-> Client(case.id)],
       [label |-> "Description", text |-> Description(case.id)],
       [label |-> "Technologies", text |-> Technologies(case.id)] >>
    \o (IF IncludesSource(level)
        THEN << [label |-> "Source", text |-> Url(case.id)] >>
        ELSE << >>)

\* _format_context: the case texts of enumerate(context, 1), joined
FormatContextTruncated(docs, level) ==
    [i \in 1..Min(FallbackCount, Len(docs)) |-> CaseText(i, docs[i], level)]
FormatContext(docs, level) ==
    [i \in 1..Len(docs) |-> CaseText(i, docs[i], level)]

\* the closing instruction _create_prompt appends for the tier
TierInstruction(level) ==
    CASE level = "simple" -> "brief_no_sources"
      [] level = "medium" -> "detailed_sources_at_end"
      [] level = "hard" -> "very_detailed_inline_links"
      [] OTHER -> "medium_format"

\* _create_prompt
CreatePrompt(q, docs, level) ==
    [kind |-> "prompt",
     question |-> q,
     context_text |-> FormatContext(docs, level),
     instruction |-> TierInstruction(level)]

\* ------------------------------------------- extract_sources_from_response
\* A text is a sequence of characters.  The pattern is
\* \[([^\]]+)\]\(([^)]+)\): "[", one or more characters other than "]",
\* "](", one or more characters other than ")", ")".
Pieces ==
    { <<"[", "a", "]", "(", "u", ")">>, <<"[", "b", "]", "(", "v", ")">>,
      <<"[", "a", "]">>, <<"(", "u", ")">>,
      <<"x">>, <<"[">>, <<"]">>, <<"(">>, <<")">> }

RECURSIVE Concats(_)
Concats(n) ==
    IF n = 0 THEN {<< >>}
    ELSE LET shorter == Concats(n - 1)
         IN  shorter \cup {p \o q : p \in shorter, q \in Pieces}

LinkTexts == Concats(MaxPieces)

\* position of the first c at or after from, 0 when there is none
IndexOf(t, c, from) ==
    LET at == {i \in from..Len(t) : t[i] = c}
    IN  IF at = {} THEN 0 ELSE CHOOSE i \in at : \A j \in at : i <= j

NoMatch == [start |-> 0, close |-> 0, end |-> 0]

\* The match of the pattern that starts at position i.  A negated class
\* cannot run over its own terminator, so the label ends at the first "]"
\* and the url at the first ")".
MatchAt(t, i) ==
    LET close == IndexOf(t, "]", i + 1)
        end == IF close = 0 THEN 0 ELSE IndexOf(t, ")", close + 2)
    IN  IF /\ t[i] = "["
           /\ close > i + 1
           /\ close + 1 <= Len(t)
           /\ t[close + 1] = "("
           /\ end > close + 2
        THEN [start |-> i, close |-> close, end |-> end]
        ELSE NoMatch

\* re.findall: leftmost match first, the scan resumes after a match
RECURSIVE FindAllFrom(_, _)
FindAllFrom(t, i) ==
    IF i > Len(t) THEN << >>
    ELSE LET m == MatchAt(t, i)
         IN  IF m # NoMatch
             THEN <<m>> \o FindAllFrom(t, m.end + 1)
             ELSE FindAllFrom(t, i + 1)

FindAll(t) == FindAllFrom(t, 1)

TitleOf(t, m) == SubSeq(t, m.start + 1, m.close - 1)
UrlOf(t, m) == SubSeq(t, m.close + 2, m.end - 1)

\* f"{title}: {url}"
SourceEntry(t, m) == TitleOf(t, m) \o <<":", " ">> \o UrlOf(t, m)

SourcesAlways(found) == List(found)
\* return sources if sources else None
SourcesOrNone(found) == IF found # << >> THEN List(found) ELSE NoneVal

ExtractSourcesFromResponse(t) ==
    LET matches == FindAll(t)
    IN  SourcesOrNone([n \in 1..Len(matches) |-> SourceEntry(t, matches[n])])

\* ------------------------------------------------------------------- state
VARIABLES
    embedding_service,  \* RAGManager.embedding_service: "None" or the service
    pinecone_client,    \* RAGManager.pinecone_client
    index,              \* RAGManager.pinecone_client.index
    llm_service,        \* RAGManager.llm_service
    rag_pipeline,       \* RAGManager.rag_pipeline
    init_result,        \* what initialize_services returned, "not_called" before
    init_log,           \* the collaborator checks initialize_services ran, in order
    invocations,        \* process_query invocations this manager has served
    pc,                 \* position of the process_query invocation
    query,              \* its arguments
    complexity_level,
    top_k,
    submitted,          \* text handed to openai.embeddings.create
    query_embedding,    \* local of process_query
    similar_docs,       \* what search_similar returned
    filtered_docs,      \* local of process_query
    context,            \* context argument of generate_response
    prompt,             \* user message handed to openai.chat.completions.create
    response,           \* what generate_response returned
    result,             \* what process_query returned
    embed_reply,        \* what each provider answered in this invocation
    search_reply,
    llm_reply,
    log                 \* external calls of this invocation, in order

manager == <<embedding_service, pinecone_client, index, llm_service, rag_pipeline, init_result,
             init_log>>
calls == <<invocations>>
request == <<pc, query, complexity_level, top_k, submitted, query_embedding, similar_docs,
             filtered_docs, context, prompt, response, result, embed_reply, search_reply, llm_reply, log>>
vars == <<manager, calls, request>>

\* The transports around the manager.  Each is run by its own
\* specification; the process_query steps leave them alone.
VARIABLES
    link_text,          \* argument of extract_sources_from_response
    sources,            \* what extract_sources_from_response returned
    rag_manager,        \* module global of api/routes/chat.py: 0 is None, else an instance
    instances,          \* every RAGManager() made so far: what its initialize_services returned
    init_calls,         \* initialize_services calls made by get_rag_manager
    http,               \* outcome of the last API request
    user_settings,      \* EoraTelegramBot.user_settings
    bot_rag_manager,    \* EoraTelegramBot.rag_manager
    database_service,   \* EoraTelegramBot.database_service
    db_session,         \* DatabaseService.session is set
    users,              \* rows of the users table
    bot_call,           \* the last process_query call made by handle_message
    bot_mode,           \* how updates reach the handlers: new, polling, webhook, stopped
    selected,           \* per user, the tier of the last level_ callback of this run
    bot_log             \* what the last handle_message did, in order

VARIABLES
    sessions,           \* rows of the chat_sessions table
    messages,           \* rows of the messages table
    clock,              \* now, in hours
    db_return           \* what the last direct DatabaseService call returned

VARIABLES
    fetch_pc,           \* where EoraScraper.fetch_page stands
    attempt,            \* its loop variable
    fetch_log,          \* the requests and sleeps of this fetch_page call, in order
    fetch_result        \* what fetch_page returned

fetchvars == <<fetch_pc, attempt, fetch_log, fetch_result>>
linkvars == <<link_text, sources>>
apivars == <<rag_manager, instances, init_calls, http>>
botvars == <<user_settings, bot_rag_manager, database_service, db_session, users, bot_call,
             bot_mode, selected, bot_log>>
dbvars == <<sessions, messages, clock, db_return>>
outside == <<linkvars, apivars, botvars, fetchvars, dbvars>>

\* Python dict: a function on the keys present
EmptyDict == << >>
Get(d, k, default) == IF k \in DOMAIN d THEN d[k] ELSE default
Put(d, k, v) == [x \in DOMAIN d \cup {k} |-> IF x = k THEN v ELSE d[x]]

\* no text has been handed to extract_sources_from_response
NoExtraction ==
    /\ link_text = << >>
    /\ sources = NotCalled

\* api/routes/chat.py at import: the global is None, no request in flight
Slots == 1..MaxRequests
FreeSlot == [stage |-> "free", level |-> "medium", manager |-> 0, status |-> 0]
ApiInit ==
    /\ rag_manager = 0
    /\ instances = << >>
    /\ init_calls = 0
    /\ http = [r \in Slots |-> FreeSlot]

\* no fetch_page call has started
NoFetch ==
    /\ fetch_pc = "idle"
    /\ attempt = 0
    /\ fetch_log = << >>
    /\ fetch_result = NotCalled

\* EoraTelegramBot.__init__, with an empty users table
NewBot ==
    /\ user_settings = EmptyDict
    /\ bot_rag_manager = "None"
    /\ database_service = "None"
    /\ db_session = FALSE
    /\ bot_call = NoneVal
    /\ bot_mode = "new"
    /\ selected = EmptyDict
    /\ bot_log = << >>
EmptyTables ==
    /\ users = << >>
    /\ sessions = << >>
    /\ messages = << >>
    /\ clock = 0
    /\ db_return = NotCalled
BotInit == NewBot /\ EmptyTables

\* provider answers
Raised == [kind |-> "raise"]
NoReply == [kind |-> "none"]
Vector == List(<<1>>)
EmbeddingReplies == {Raised, List(<<>>), Vector}
SearchReplies(k) == {Raised} \cup {List(m) : m \in QueryMatches(k)}
Answers == {"", "a1", "a2"}
LlmReplies == {Raised, NoneVal} \cup {Str(a) : a \in Answers}

NoRequest ==
    /\ pc = "idle"
    /\ query = EmptyText
    /\ complexity_level = "medium"
    /\ top_k = 1
    /\ submitted = NoneVal
    /\ query_embedding = NoneVal
    /\ similar_docs = <<>>
    /\ filtered_docs = <<>>
    /\ context = NoneVal
    /\ prompt = NoneVal
    /\ response = NoneVal
    /\ result = NoneVal
    /\ embed_reply = NoReply
    /\ search_reply = NoReply
    /\ llm_reply = NoReply
    /\ log = <<>>

\* RAGManager.__init__
NewFields ==
    /\ embedding_service = "None"
    /\ pinecone_client = "None"
    /\ index = "None"
    /\ llm_service = "None"
    /\ rag_pipeline = "None"
    /\ init_result = "not_called"
    /\ init_log = << >>
    /\ invocations = 0

Init == NewFields /\ NoRequest /\ NoExtraction /\ ApiInit /\ BotInit /\ NoFetch

\* ------------------------------------------------------ initialize_services
\* Each collaborator either cannot be constructed ("raise": no API key),
\* is constructed and fails its check ("fail"), or passes ("ok").
CheckOutcomes == {"raise", "fail", "ok"}

InitEmbeddingService(e) == IF e = "raise" THEN "None" ELSE "EmbeddingService"
InitPineconeClient(e, p) == IF e = "ok" /\ p # "raise" THEN "PineconeClient" ELSE "None"
InitIndex(e, p) == IF e = "ok" /\ p = "ok" THEN "Index" ELSE "None"
InitLlmService(e, p, l) == IF e = "ok" /\ p = "ok" /\ l # "raise" THEN "LLMService" ELSE "None"
InitSucceeds(e, p, l) == e = "ok" /\ p = "ok" /\ l = "ok"

\* The checks the method runs, each with what it returned: a check runs
\* once its collaborator is constructed, and a check that returns False
\* ends the method.
Check(name, passed) == [check |-> name, passed |-> passed]
ChecksRunAll(e, p, l) ==
    (IF e = "raise" THEN << >> ELSE <<Check("embedding", e = "ok")>>)
    \o (IF p = "raise" THEN << >> ELSE <<Check("vector index", p = "ok")>>)
    \o (IF l = "raise" THEN << >> ELSE <<Check("llm", l = "ok")>>)
ChecksRun(e, p, l) ==
    IF e = "raise" THEN << >>
    ELSE <<Check("embedding", e = "ok")>>
         \o (IF e # "ok" \/ p = "raise" THEN << >>
             ELSE <<Check("vector index", p = "ok")>>
                  \o (IF p # "ok" \/ l = "raise" THEN << >>
                      ELSE <<Check("llm", l = "ok")>>))

InitializeServices(e, p, l) ==
    /\ pc = "idle"
    /\ UNCHANGED outside
    /\ init_result = "not_called"
    /\ embedding_service' = InitEmbeddingService(e)
    /\ pinecone_client' = InitPineconeClient(e, p)
    /\ index' = InitIndex(e, p)
    /\ llm_service' = InitLlmService(e, p, l)
    /\ rag_pipeline' = IF InitSucceeds(e, p, l) THEN "RAGPipeline" ELSE "None"
    /\ init_result' = IF InitSucceeds(e, p, l) THEN "True" ELSE "False"
    /\ init_log' = ChecksRun(e, p, l)
    /\ UNCHANGED <<calls, request>>

\* a caller constructs another RAGManager()
NewManager ==
    /\ pc = "idle"
    /\ UNCHANGED outside
    /\ init_result # "not_called"
    /\ embedding_service' = "None"
    /\ pinecone_client' = "None"
    /\ index' = "None"
    /\ llm_service' = "None"
    /\ rag_pipeline' = "None"
    /\ init_result' = "not_called"
    /\ init_log' = << >>
    /\ invocations' = 0
    /\ UNCHANGED request

\* ------------------------------------------------------------ process_query
\* Where process_query goes next.  "done" is a return of None from the
\* point of the check.

\* "if not self.rag_pipeline: return None"
AfterPipelineCheckUnguarded(pipeline) == "embed"
AfterPipelineCheckSearchFirst(pipeline) == IF pipeline = "None" THEN "done" ELSE "search"
AfterPipelineCheck(pipeline) == IF pipeline = "None" THEN "done" ELSE "embed"

\* "if not query_embedding: return None"
AfterEmbeddingIgnoreFailure(emb) == "search"
AfterEmbeddingRaise(emb) == IF ~Truthy(emb) THEN "raised" ELSE "search"
AfterEmbeddingRetry(emb) == IF ~Truthy(emb) THEN "embed" ELSE "search"
AfterEmbedding(emb) == IF ~Truthy(emb) THEN "done" ELSE "search"

\* search_similar's result is used without a check
AfterSearch(docs) == "generate"

\* "if response: return response / else: return None"
ReturnUnchecked(resp) == resp
ReturnValue(resp) == IF Truthy(resp) THEN resp ELSE NoneVal

\* EmbeddingService.generate_embedding after the provider answered
EmbeddingResult(reply) == IF reply = Raised THEN NoneVal ELSE reply
\* PineconeClient.search_similar after the provider answered
SearchResult(reply) == IF reply = Raised THEN <<>> ELSE reply.val
\* LLMService.generate_response after the provider answered; len(None) raises
GenerationResult(reply) == IF reply = Raised \/ reply = NoneVal THEN NoneVal ELSE reply

ProcessQuery(q, level, k) ==
    /\ pc = "idle"
    /\ UNCHANGED outside
    /\ invocations < MaxInvocations
    /\ invocations' = invocations + 1
    /\ query' = q
    /\ complexity_level' = level
    /\ top_k' = k
    /\ pc' = AfterPipelineCheck(rag_pipeline)
    /\ UNCHANGED <<manager, submitted, query_embedding, similar_docs, filtered_docs, context,
                   prompt, response, result, embed_reply, search_reply, llm_reply, log>>

\* line 75 and generate_embedding up to the provider call
GenerateEmbedding ==
    /\ pc = "embed"
    /\ UNCHANGED outside
    /\ IF embedding_service = "None"
       THEN \* AttributeError, caught at line 118
            /\ pc' = "done"
            /\ UNCHANGED <<submitted, query_embedding, log>>
       ELSE IF IsBlank(query)
       THEN /\ query_embedding' = NoneVal
            /\ pc' = AfterEmbedding(NoneVal)
            /\ UNCHANGED <<submitted, log>>
       ELSE /\ submitted' = Str(TruncateForApi(query))
            /\ log' = Append(log, "embed")
            /\ pc' = "embed_wait"
            /\ UNCHANGED query_embedding
    /\ UNCHANGED <<manager, calls, query, complexity_level, top_k, similar_docs, filtered_docs, context,
                   prompt, response, result, embed_reply, search_reply, llm_reply>>

EmbeddingReturn(reply) ==
    /\ pc = "embed_wait"
    /\ UNCHANGED outside
    /\ embed_reply' = reply
    /\ log' = Append(log, "embed_ret")
    /\ query_embedding' = EmbeddingResult(reply)
    /\ pc' = AfterEmbedding(EmbeddingResult(reply))
    /\ UNCHANGED <<manager, calls, query, complexity_level, top_k, submitted, similar_docs, filtered_docs,
                   context, prompt, response, result, search_reply, llm_reply>>

\* line 81 and search_similar up to the provider call
SearchSimilar ==
    /\ pc = "search"
    /\ UNCHANGED outside
    /\ IF pinecone_client = "None"
       THEN \* AttributeError, caught at line 118
            /\ pc' = "done"
            /\ UNCHANGED <<similar_docs, log>>
       ELSE IF index = "None"
       THEN /\ similar_docs' = <<>>
            /\ pc' = AfterSearch(<<>>)
            /\ UNCHANGED log
       ELSE /\ log' = Append(log, "search")
            /\ pc' = "search_wait"
            /\ UNCHANGED similar_docs
    /\ UNCHANGED <<manager, calls, query, complexity_level, top_k, submitted, query_embedding, filtered_docs,
                   context, prompt, response, result, embed_reply, search_reply, llm_reply>>

SearchReturn ==
    /\ pc = "search_wait"
    /\ UNCHANGED outside
    /\ \E reply \in SearchReplies(top_k) :
           /\ search_reply' = reply
           /\ similar_docs' = SearchResult(reply)
           /\ pc' = AfterSearch(SearchResult(reply))
    /\ log' = Append(log, "search_ret")
    /\ UNCHANGED <<manager, calls, query, complexity_level, top_k, submitted, query_embedding,
                   filtered_docs, context, prompt, response, result, embed_reply, llm_reply>>

\* lines 84-109 and generate_response up to the provider call
FilterAndGenerate ==
    /\ pc = "generate"
    /\ UNCHANGED outside
    /\ filtered_docs' = RelevanceFilter(similar_docs)
    /\ IF llm_service = "None"
       THEN \* AttributeError, caught at line 118
            /\ pc' = "done"
            /\ UNCHANGED <<context, prompt, response, log>>
       ELSE IF IsBlank(query)
       THEN /\ context' = List(RelevanceFilter(similar_docs))
            /\ response' = NoneVal
            /\ pc' = "done"
            /\ UNCHANGED <<prompt, log>>
       ELSE /\ context' = List(RelevanceFilter(similar_docs))
            /\ prompt' = CreatePrompt(query, RelevanceFilter(similar_docs), complexity_level)
            /\ log' = Append(log, "generate")
            /\ pc' = "generate_wait"
            /\ UNCHANGED response
    /\ UNCHANGED <<manager, calls, query, complexity_level, top_k, submitted, query_embedding, similar_docs,
                   result, embed_reply, search_reply, llm_reply>>

GenerationReturnResets(reply) ==
    /\ pc = "generate_wait"
    /\ UNCHANGED outside
    /\ llm_reply' = reply
    /\ log' = Append(log, "generate_ret")
    /\ response' = GenerationResult(reply)
    /\ result' = ReturnValue(GenerationResult(reply))
    /\ pc' = "done"
    /\ rag_pipeline' = IF reply = Raised THEN "None" ELSE rag_pipeline
    /\ UNCHANGED <<embedding_service, pinecone_client, index, llm_service, init_result, init_log, calls, query, complexity_level, top_k, submitted, query_embedding, similar_docs,
                   filtered_docs, context, prompt, embed_reply, search_reply>>

GenerationReturn(reply) ==
    /\ pc = "generate_wait"
    /\ UNCHANGED outside
    /\ llm_reply' = reply
    /\ log' = Append(log, "generate_ret")
    /\ response' = GenerationResult(reply)
    /\ result' = ReturnValue(GenerationResult(reply))
    /\ pc' = "done"
    /\ UNCHANGED <<manager, calls, query, complexity_level, top_k, submitted, query_embedding, similar_docs,
                   filtered_docs, context, prompt, embed_reply, search_reply>>

\* the caller has the return value; the invocation's locals are gone
Return ==
    /\ pc = "done"
    /\ UNCHANGED outside
    /\ pc' = "idle"
    /\ query' = EmptyText
    /\ complexity_level' = "medium"
    /\ top_k' = 1
    /\ submitted' = NoneVal
    /\ query_embedding' = NoneVal
    /\ similar_docs' = <<>>
    /\ filtered_docs' = <<>>
    /\ context' = NoneVal
    /\ prompt' = NoneVal
    /\ response' = NoneVal
    /\ result' = NoneVal
    /\ embed_reply' = NoReply
    /\ search_reply' = NoReply
    /\ llm_reply' = NoReply
    /\ log' = <<>>
    /\ UNCHANGED <<manager, calls>>

Next ==
    \/ \E e, p, l \in CheckOutcomes : InitializeServices(e, p, l)
    \/ NewManager
    \/ \E q \in Texts, level \in Levels, k \in TopKs : ProcessQuery(q, level, k)
    \/ GenerateEmbedding
    \/ \E reply \in EmbeddingReplies : EmbeddingReturn(reply)
    \/ SearchSimilar
    \/ SearchReturn
    \/ FilterAndGenerate
    \/ \E reply \in LlmReplies : GenerationReturn(reply)
    \/ Return

Spec == Init /\ [][Next]_vars

\* the steps of a process_query invocation after its start
Progress ==
    \/ GenerateEmbedding
    \/ \E reply \in EmbeddingReplies : EmbeddingReturn(reply)
    \/ SearchSimilar
    \/ SearchReturn
    \/ FilterAndGenerate
    \/ \E reply \in LlmReplies : GenerationReturn(reply)

TypeOK ==
    /\ pc \in {"idle", "embed", "embed_wait", "search", "search_wait", "generate",
               "generate_wait", "done"}
    /\ query \in Texts
    /\ complexity_level \in Levels
    /\ top_k \in TopKs
    /\ result \in {NoneVal} \cup {Str(a) : a \in Answers}
    /\ invocations \in 0..MaxInvocations

\* ---------------------------------------------- source extraction, as a run
ExtractSources ==
    /\ sources = NotCalled
    /\ sources' = ExtractSourcesFromResponse(link_text)
    /\ UNCHANGED <<link_text, vars, apivars, botvars, fetchvars, dbvars>>

InitLinks ==
    /\ NewFields /\ NoRequest /\ ApiInit /\ BotInit /\ NoFetch
    /\ link_text \in LinkTexts
    /\ sources = NotCalled

NextLinks == ExtractSources

SpecLinks == InitLinks /\ [][NextLinks]_linkvars

\* -------------------------------------------------------- HTTP API (chat.py)
\* complexity_level as a client may send it; "omitted" leaves the field out
SentLevels == {"omitted", "simple", "medium", "hard", "expert"}
InitResults == {"True", "False"}

\* Field(default="medium")
RequestLevel(sent) == IF sent = "omitted" THEN "medium" ELSE sent
\* pattern="^(simple|medium|hard)$"
ValidLevel(level) == level \in {"simple", "medium", "hard"}

\* if rag_manager is None
NeedsManagerAlways(g) == TRUE
NeedsManager(g) == g = 0

\* a POST /chat/ arrives
Receive(r, sent) ==
    /\ http[r].stage = "free"
    /\ http' = [http EXCEPT ![r] = [stage |-> "depends", level |-> RequestLevel(sent),
                                    manager |-> 0, status |-> 0]]
    /\ UNCHANGED <<rag_manager, instances, init_calls, vars, linkvars, botvars, fetchvars, dbvars>>

\* The dependency has returned manager m: the body is validated next, and
\* an invalid one is answered 422 without entering chat_endpoint.
Resolved(slot, m) ==
    IF ValidLevel(slot.level)
    THEN [slot EXCEPT !.stage = "endpoint", !.manager = m]
    ELSE [slot EXCEPT !.stage = "sent", !.manager = m, !.status = 422]

\* get_rag_manager has no await: it runs as one step of the event loop
GetRagManager(r) ==
    /\ http[r].stage = "depends"
    /\ IF NeedsManager(rag_manager)
       THEN /\ Len(instances) < MaxInstances
            /\ \E outcome \in InitResults :
                 /\ instances' = Append(instances, outcome)
                 /\ http' = [http EXCEPT ![r] =
                       IF outcome = "True"
                       THEN Resolved(http[r], Len(instances) + 1)
                       ELSE [http[r] EXCEPT !.stage = "sent", !.status = 503]]
            /\ rag_manager' = Len(instances) + 1
            /\ init_calls' = init_calls + 1
       ELSE /\ http' = [http EXCEPT ![r] = Resolved(http[r], rag_manager)]
            /\ UNCHANGED <<rag_manager, instances, init_calls>>
    /\ UNCHANGED <<vars, linkvars, botvars, fetchvars, dbvars>>

\* chat_endpoint: process_query on the manager it was handed; a manager
\* whose initialization failed has no pipeline and returns None
ChatEndpoint(r, answer) ==
    /\ http[r].stage = "endpoint"
    /\ LET response_ == IF instances[http[r].manager] = "True" THEN answer ELSE NoneVal
       IN  http' = [http EXCEPT ![r].stage = "sent",
                                ![r].status = IF Truthy(response_) THEN 200 ELSE 500]
    /\ UNCHANGED <<rag_manager, instances, init_calls, vars, linkvars, botvars, fetchvars, dbvars>>

\* the response has left; the slot serves the next request
Respond(r) ==
    /\ http[r].stage = "sent"
    /\ http' = [http EXCEPT ![r] = FreeSlot]
    /\ UNCHANGED <<rag_manager, instances, init_calls, vars, linkvars, botvars, fetchvars, dbvars>>

\* health_check builds a RAGManager of its own; its rag_manager is a local
HealthCheck(outcome) ==
    /\ Len(instances) < MaxInstances
    /\ instances' = Append(instances, outcome)
    /\ UNCHANGED <<rag_manager, init_calls, http, vars, linkvars, botvars, fetchvars, dbvars>>

InitApi == NewFields /\ NoRequest /\ NoExtraction /\ ApiInit /\ BotInit /\ NoFetch

NextApi ==
    \/ \E r \in Slots, sent \in SentLevels : Receive(r, sent)
    \/ \E r \in Slots : GetRagManager(r)
    \/ \E r \in Slots, answer \in {NoneVal, Str("a1")} : ChatEndpoint(r, answer)
    \/ \E r \in Slots : Respond(r)
    \/ \E outcome \in InitResults : HealthCheck(outcome)

SpecApi == InitApi /\ [][NextApi]_apivars

\* ------------------------------------------- Telegram bot (telegram_bot.py)
Users == {100 + n : n \in 1..NumUsers}

\* Callback data as tokens: the prefix "level_" and the text around it.
\* The settings keyboard offers the three level_ buttons; the field itself
\* is whatever the update carries.
CallbackData ==
    { <<"start">>, <<"help">>, <<"settings">>,
      <<"level_", "simple">>, <<"level_", "medium">>, <<"level_", "hard">>,
      <<"level_", "expert">>, <<"level_">>, <<"level_", "level_", "hard">> }

\* query.data.startswith("level_")
StartsWithLevel(data) == data[1] = "level_"
\* query.data.replace("level_", ""): every occurrence goes; no datum above
\* keeps more than one other token
ReplaceLevel(data) ==
    LET rest == SelectSeq(data, LAMBDA t : t # "level_")
    IN  IF rest = << >> THEN "" ELSE rest[1]

\* str(user_id), the telegram_id column
TelegramId(u) == Str(u)

\* ------------------------------------------ DatabaseService (database_service.py)
\* query(...).filter(...).first() on a table kept as a sequence of rows
First(rows) == CHOOSE i \in rows : \A j \in rows : i <= j
UserRows(table, key) == {i \in 1..Len(table) : table[i].telegram_id = key}
User(id, key, level) ==
    [kind |-> "User", id |-> id, telegram_id |-> key, complexity_level |-> level]

GetOrCreateUserNoLookup(table, key, usable) ==
    IF ~usable THEN [table |-> table, user |-> NoneVal]
    ELSE LET row == User(Len(table) + 1, key, "hard")
         IN  [table |-> Append(table, row), user |-> row]
\* get_or_create_user: None without a session or on an exception (rolled
\* back); the existing row as it is; else a new row with level hard
GetOrCreateUser(table, key, usable) ==
    IF ~usable THEN [table |-> table, user |-> NoneVal]
    ELSE IF UserRows(table, key) # {}
    THEN [table |-> table, user |-> table[First(UserRows(table, key))]]
    ELSE LET row == User(Len(table) + 1, key, "hard")
         IN  [table |-> Append(table, row), user |-> row]

\* update_user_complexity: only an existing row changes
UpdateUserComplexity(table, key, level, usable) ==
    IF usable /\ UserRows(table, key) # {}
    THEN [table EXCEPT ![First(UserRows(table, key))].complexity_level = level]
    ELSE table

\* create_chat_session: a fresh uuid4 as session_id, created_at from now()
ChatSession(id, user_id, now) ==
    [kind |-> "ChatSession", id |-> id, user_id |-> user_id, session_id |-> [uuid |-> id],
     created_at |-> now]
CreateChatSession(table, user_id, now, usable) ==
    IF ~usable THEN [table |-> table, session |-> NoneVal]
    ELSE LET row == ChatSession(Len(table) + 1, user_id, now)
         IN  [table |-> Append(table, row), session |-> row]

\* created_at >= utcnow() - timedelta(hours=24)
InWindowAlways(created_at, now) == TRUE
InWindow(created_at, now) == created_at >= now - ActiveHours
ActiveRows(table, user_id, now) ==
    {i \in 1..Len(table) : table[i].user_id = user_id /\ InWindow(table[i].created_at, now)}
\* order_by(created_at.desc()).first(): rows with equal created_at come
\* in an order the database chooses
Latest(table, rows) == {i \in rows : \A j \in rows : table[j].created_at <= table[i].created_at}

\* get_or_create_active_session: every result the call can have
GetOrCreateActiveSession(table, user_id, now, usable) ==
    IF ~usable THEN {[table |-> table, session |-> NoneVal]}
    ELSE IF ActiveRows(table, user_id, now) # {}
    THEN {[table |-> table, session |-> table[i]] :
             i \in Latest(table, ActiveRows(table, user_id, now))}
    ELSE {CreateChatSession(table, user_id, now, usable)}

\* save_message: one row, or none on an exception
Message(session_id, level, now) ==
    [kind |-> "Message", session_id |-> session_id, complexity_level |-> level,
     created_at |-> now]
SaveMessage(table, session_id, level, now, usable) ==
    IF usable THEN Append(table, Message(session_id, level, now)) ELSE table

\* ---------------------------------------------------------- bot handlers
\* if self.database_service, then inside the service if self.session
DbUsable(ok) == database_service # "None" /\ db_session /\ ok

\* run_bot / initialize: the manager first, the database only after it;
\* the handlers are registered only when the manager is ready
RunBot(rag_ok, db_ok) ==
    /\ bot_mode = "new"
    /\ bot_mode' = IF rag_ok THEN "polling" ELSE "stopped"
    /\ bot_rag_manager' = IF rag_ok THEN "ready" ELSE "failed"
    /\ database_service' = IF rag_ok THEN "DatabaseService" ELSE database_service
    /\ db_session' = (rag_ok /\ db_ok)
    /\ UNCHANGED <<user_settings, users, bot_call, selected, bot_log,
                   vars, linkvars, apivars, fetchvars, dbvars>>

\* start_webhook.main: initialize_telegram_bot only constructs the bot,
\* then the server passes the updates to handle_webhook_update
StartWebhook ==
    /\ bot_mode = "new"
    /\ bot_mode' = "webhook"
    /\ UNCHANGED <<user_settings, bot_rag_manager, database_service, db_session, users,
                   bot_call, selected, bot_log, vars, linkvars, apivars, fetchvars, dbvars>>

\* updates reach the handlers
Serving == bot_mode \in {"polling", "webhook"}

\* the /start command handler, registered by run_bot
StartCommand(u, db_ok) ==
    /\ bot_mode = "polling"
    /\ LET got == IF database_service # "None"
                  THEN GetOrCreateUser(users, TelegramId(u), DbUsable(db_ok))
                  ELSE [table |-> users, user |-> NoneVal]
       IN  /\ users' = got.table
           /\ user_settings' = Put(user_settings, u,
                                   IF got.user # NoneVal THEN got.user.complexity_level
                                   ELSE "hard")
    /\ UNCHANGED <<bot_rag_manager, database_service, db_session, bot_call, bot_mode,
                   selected, bot_log, vars, linkvars, apivars, fetchvars, dbvars>>

\* self.user_settings.get(user_id, "hard")
LevelFor(settings, u) == Get(settings, u, "hard")

\* the answer is persisted once it has been sent
PersistsUnsent(answered, reply_ok) == answered
Persists(answered, reply_ok) == answered /\ reply_ok

\* The database part of handle_message, lines 217-236: every outcome it
\* can have.  db_fail names the call that meets an exception, if any.
Persisted(u, level, db_fail) ==
    LET got == GetOrCreateUser(users, TelegramId(u), DbUsable(db_fail # "user"))
    IN  IF got.user = NoneVal
        THEN {[users |-> got.table, sessions |-> sessions, messages |-> messages,
               saved |-> FALSE]}
        ELSE {IF found.session = NoneVal
              THEN [users |-> got.table, sessions |-> found.table, messages |-> messages,
                    saved |-> FALSE]
              ELSE [users |-> got.table, sessions |-> found.table,
                    messages |-> SaveMessage(messages, found.session.session_id, level,
                                             clock, DbUsable(db_fail # "message")),
                    saved |-> TRUE]
              : found \in GetOrCreateActiveSession(sessions, got.user.id, clock,
                                                   DbUsable(db_fail # "session"))}
NotPersisted == [users |-> users, sessions |-> sessions, messages |-> messages, saved |-> FALSE]

DbFailures == {"none", "user", "session", "message"}

\* the finally block runs whether or not the try block raised
DeletesPlaceholderUnlessRaised(raised) == ~raised
DeletesPlaceholder(raised) == TRUE

\* An input the handler does not read on the path taken is held at one
\* value: nothing is read after a blank text or a placeholder that could
\* not be sent, and the database is reached only by a sent answer.
Consulted(blank, placeholder_ok, answer, reply_ok, db_fail, delete_ok) ==
    /\ (blank \/ ~placeholder_ok) =>
          (answer = NoneVal /\ reply_ok /\ db_fail = "none" /\ delete_ok)
    /\ blank => placeholder_ok
    /\ (answer = NoneVal \/ ~reply_ok) => db_fail = "none"

\* handle_message.  A blank text returns at once.  The placeholder is sent
\* before the try block.  Without a manager the call raises; a reply that
\* cannot be sent raises too; both end in the except branch.  The finally
\* block attempts to delete the placeholder.
HandleMessage(u, blank, placeholder_ok, answer, reply_ok, db_fail, delete_ok) ==
    /\ Serving
    /\ Len(messages) < MaxMessages
    /\ Len(sessions) < MaxSessions
    /\ IF blank
       THEN UNCHANGED <<bot_call, bot_log, users, sessions, messages>>
       ELSE IF ~placeholder_ok
       THEN /\ bot_log' = <<"placeholder_failed">>
            /\ UNCHANGED <<bot_call, users, sessions, messages>>
       ELSE LET level == LevelFor(user_settings, u)
                called == bot_rag_manager # "None"
                answered == called /\ Truthy(answer)
            IN  /\ bot_call' = IF called
                               THEN [user |-> u, complexity_level |-> level, top_k |-> 5]
                               ELSE bot_call
                /\ \E p \in IF Persists(answered, reply_ok)
                              THEN Persisted(u, level, db_fail) ELSE {NotPersisted} :
                      /\ users' = p.users
                      /\ sessions' = p.sessions
                      /\ messages' = p.messages
                      /\ bot_log' =
                            <<"placeholder">>
                            \o (IF called THEN <<"process_query">> ELSE << >>)
                            \o (IF answered /\ reply_ok THEN <<"answer_sent">> ELSE << >>)
                            \o (IF called /\ ~answered /\ reply_ok
                                THEN <<"apology_sent">> ELSE << >>)
                            \o (IF p.saved THEN <<"save_message">> ELSE << >>)
                            \o (IF ~called \/ ~reply_ok THEN <<"error_reply">> ELSE << >>)
                            \o (IF DeletesPlaceholder(~called \/ ~reply_ok)
                                THEN <<IF delete_ok THEN "placeholder_deleted"
                                       ELSE "delete_failed">>
                                ELSE << >>)
    /\ UNCHANGED <<user_settings, bot_rag_manager, database_service, db_session, bot_mode,
                   selected, clock, db_return, vars, linkvars, apivars, fetchvars>>

\* handle_callback: only the level_ branch writes
HandleCallback(u, data, db_ok) ==
    /\ Serving
    /\ IF StartsWithLevel(data)
       THEN /\ user_settings' = Put(user_settings, u, ReplaceLevel(data))
            /\ selected' = Put(selected, u, ReplaceLevel(data))
            /\ users' = IF database_service # "None"
                        THEN UpdateUserComplexity(users, TelegramId(u), ReplaceLevel(data),
                                                  DbUsable(db_ok))
                        ELSE users
       ELSE UNCHANGED <<user_settings, selected, users>>
    /\ UNCHANGED <<bot_rag_manager, database_service, db_session, bot_call, bot_mode,
                   bot_log, vars, linkvars, apivars, fetchvars, dbvars>>

\* the process ends and a new EoraTelegramBot() is constructed; the
\* tables stay
BotRestart ==
    /\ bot_mode # "new"
    /\ user_settings' = EmptyDict
    /\ bot_rag_manager' = "None"
    /\ database_service' = "None"
    /\ db_session' = FALSE
    /\ bot_call' = NoneVal
    /\ bot_mode' = "new"
    /\ selected' = EmptyDict
    /\ bot_log' = << >>
    /\ UNCHANGED <<users, vars, linkvars, apivars, fetchvars, dbvars>>

InitBot == NewFields /\ NoRequest /\ NoExtraction /\ ApiInit /\ BotInit /\ NoFetch

NextBot ==
    \/ \E rag_ok, db_ok \in BOOLEAN : RunBot(rag_ok, db_ok)
    \/ StartWebhook
    \/ \E u \in Users, db_ok \in BOOLEAN : StartCommand(u, db_ok)
    \/ \E u \in Users, blank, placeholder_ok, reply_ok, delete_ok \in BOOLEAN,
          answer \in {NoneVal, Str("a1")}, db_fail \in DbFailures :
          /\ Consulted(blank, placeholder_ok, answer, reply_ok, db_fail, delete_ok)
          /\ HandleMessage(u, blank, placeholder_ok, answer, reply_ok, db_fail, delete_ok)
    \/ \E u \in Users, data \in CallbackData, db_ok \in BOOLEAN : HandleCallback(u, data, db_ok)
    \/ BotRestart

SpecBot == InitBot /\ [][NextBot]_<<botvars, dbvars>>

\* ------------------------------------- messages over time (handle_message)
\* Time passes between updates, in steps that can add up to exactly 24
\* hours and to an hour more or less.
Ticks == {12, 13}
Tick(d) ==
    /\ clock + d <= MaxClock
    /\ clock' = clock + d
    /\ UNCHANGED <<sessions, messages, db_return, vars, linkvars, apivars, botvars, fetchvars>>

InitMsg == NewFields /\ NoRequest /\ NoExtraction /\ ApiInit /\ BotInit /\ NoFetch

NextMsg ==
    \/ \E rag_ok, db_ok \in BOOLEAN : RunBot(rag_ok, db_ok)
    \/ StartWebhook
    \/ \E u \in Users, blank, placeholder_ok, reply_ok, delete_ok \in BOOLEAN,
          answer \in {NoneVal, Str("a1")}, db_fail \in DbFailures :
          /\ Consulted(blank, placeholder_ok, answer, reply_ok, db_fail, delete_ok)
          /\ HandleMessage(u, blank, placeholder_ok, answer, reply_ok, db_fail, delete_ok)
    \/ \E d \in Ticks : Tick(d)

SpecMsg == InitMsg /\ [][NextMsg]_<<botvars, dbvars>>

\* ------------------------------------------- DatabaseService, call by call
\* Each method is called with a database that serves the call (ok) or one
\* that has no session or meets an exception; db_return is what it returned.
Bool(b) == [kind |-> "bool", val |-> b]

DbGetOrCreateUser(u, ok) ==
    LET got == GetOrCreateUser(users, TelegramId(u), ok)
    IN  /\ users' = got.table
        /\ db_return' = got.user
        /\ UNCHANGED <<sessions, messages, clock, user_settings, bot_rag_manager,
                       database_service, db_session, bot_call, bot_mode, selected, bot_log,
                       vars, linkvars, apivars, fetchvars>>

DbUpdateUserComplexity(u, level, ok) ==
    /\ users' = UpdateUserComplexity(users, TelegramId(u), level, ok)
    /\ db_return' = Bool(ok /\ UserRows(users, TelegramId(u)) # {})
    /\ UNCHANGED <<sessions, messages, clock, user_settings, bot_rag_manager,
                   database_service, db_session, bot_call, bot_mode, selected, bot_log,
                   vars, linkvars, apivars, fetchvars>>

DbGetOrCreateActiveSession(user_id, ok) ==
    /\ Len(sessions) < MaxSessions
    /\ \E got \in GetOrCreateActiveSession(sessions, user_id, clock, ok) :
          /\ sessions' = got.table
          /\ db_return' = got.session
    /\ UNCHANGED <<messages, clock, vars, linkvars, apivars, botvars, fetchvars>>

InitDb == NewFields /\ NoRequest /\ NoExtraction /\ ApiInit /\ BotInit /\ NoFetch

NextDb ==
    \/ \E u \in Users, ok \in BOOLEAN : DbGetOrCreateUser(u, ok)
    \/ \E u \in Users, level \in Levels, ok \in BOOLEAN : DbUpdateUserComplexity(u, level, ok)
    \/ \E i \in 1..Len(users), ok \in BOOLEAN : DbGetOrCreateActiveSession(users[i].id, ok)
    \/ \E d \in Ticks : Tick(d)

SpecDb == InitDb /\ [][NextDb]_<<botvars, dbvars>>

\* ------------------------------------------- EoraScraper.fetch_page (scraper.py)
\* What one session.get can come to: an exception before a response, the
\* timeout of 30 s, or a response with a status whose text is read only
\* when the status is 200, and reading it can raise as well.
TimedOut == [kind |-> "timeout"]
Pages == {Str("html1"), Str("html2")}
GetReplies ==
    {Raised, TimedOut}
    \cup {[kind |-> "response", status |-> 200, text |-> t] : t \in Pages \cup {Raised}}
    \cup {[kind |-> "response", status |-> st, text |-> NoneVal] : st \in {404, 503}}

\* response.status == 200 and response.text() returned
PageRead(reply) == reply.kind = "response" /\ reply.status = 200 /\ reply.text # Raised
\* the except branch: the request or the read of the text raised
FetchRaised(reply) ==
    \/ reply.kind \in {"raise", "timeout"}
    \/ reply.kind = "response" /\ reply.status = 200 /\ reply.text = Raised

RECURSIVE Pow2(_)
Pow2(n) == IF n = 0 THEN 1 ELSE 2 * Pow2(n - 1)

\* for attempt in range(self.max_retries)
LoopContinuesOnceMore(a) == a + 1 <= max_retries
LoopContinues(a) == a + 1 < max_retries
\* if attempt < self.max_retries - 1
SleepsAfter(a) == a < max_retries - 1

FetchPage ==
    /\ fetch_pc \in {"idle", "returned"}
    /\ fetch_pc' = "get"
    /\ attempt' = 0
    /\ fetch_log' = << >>
    /\ fetch_result' = NotCalled
    /\ UNCHANGED <<vars, linkvars, apivars, botvars, dbvars>>

\* one pass of the loop body up to its next await or to the return
SessionGet(reply) ==
    /\ fetch_pc = "get"
    /\ fetch_log' = Append(fetch_log, [ev |-> "get", attempt |-> attempt, reply |-> reply])
    /\ IF PageRead(reply)
       THEN /\ fetch_pc' = "returned"
            /\ fetch_result' = reply.text
            /\ UNCHANGED attempt
       ELSE IF FetchRaised(reply) /\ SleepsAfter(attempt)
       THEN /\ fetch_pc' = "sleep"
            /\ UNCHANGED <<attempt, fetch_result>>
       ELSE IF LoopContinues(attempt)
       THEN /\ fetch_pc' = "get"
            /\ attempt' = attempt + 1
            /\ UNCHANGED fetch_result
       ELSE /\ fetch_pc' = "returned"
            /\ fetch_result' = NoneVal
            /\ UNCHANGED attempt
    /\ UNCHANGED <<vars, linkvars, apivars, botvars, dbvars>>

\* await asyncio.sleep(2 ** attempt), then the next pass
Sleep ==
    /\ fetch_pc = "sleep"
    /\ fetch_log' = Append(fetch_log, [ev |-> "sleep", seconds |-> Pow2(attempt)])
    /\ IF LoopContinues(attempt)
       THEN /\ fetch_pc' = "get"
            /\ attempt' = attempt + 1
            /\ UNCHANGED fetch_result
       ELSE /\ fetch_pc' = "returned"
            /\ fetch_result' = NoneVal
            /\ UNCHANGED attempt
    /\ UNCHANGED <<vars, linkvars, apivars, botvars, dbvars>>

InitFetch == NewFields /\ NoRequest /\ NoExtraction /\ ApiInit /\ BotInit /\ NoFetch

NextFetch ==
    \/ FetchPage
    \/ \E reply \in GetReplies : SessionGet(reply)
    \/ Sleep

SpecFetch == InitFetch /\ [][NextFetch]_fetchvars

\* ------------------------------------------------------------------ claims
Range(f) == {f[i] : i \in DOMAIN f}
Count(f, x) == Cardinality({i \in DOMAIN f : f[i] = x})
Relevant(docs) == {d \in Range(docs) : d.score > RelevanceThreshold}
FilterRan == context # NoneVal
FullLog == <<"embed", "embed_ret", "search", "search_ret", "generate", "generate_ret">>
IsAnswer(v) == v.kind = "str" /\ v.val # ""
BlankQuery == query.body = 0

\* C1: when some candidate returned by search scores above 0.35, the
\* filtered documents are exactly the candidates scoring above 0.35 (a score
\* of exactly 0.35 is left out), each once, in descending score order.
C1_PrimaryPath ==
    (FilterRan /\ Relevant(similar_docs) # {}) =>
        /\ Range(filtered_docs) = Relevant(similar_docs)
        /\ Len(filtered_docs) = Cardinality(Relevant(similar_docs))
        /\ IsDescending(filtered_docs)
        /\ context = List(filtered_docs)

C1_Witness ==
    /\ pc = "generate_wait"
    /\ Len(similar_docs) = 3
    /\ Len(filtered_docs) = 2
    /\ similar_docs[3].score = RelevanceThreshold

\* C2: when no candidate returned by search scores above 0.35, the filtered
\* documents are the two highest-scoring candidates (all of them when there
\* are fewer than two), in descending score order.
C2_FallbackPath ==
    (FilterRan /\ Relevant(similar_docs) = {}) =>
        /\ Len(filtered_docs) = Min(FallbackCount, Len(similar_docs))
        /\ Range(filtered_docs) \subseteq Range(similar_docs)
        /\ Cardinality(Range(filtered_docs)) = Len(filtered_docs)
        /\ IsDescending(filtered_docs)
        /\ \A d \in Range(similar_docs) \ Range(filtered_docs) :
               \A f \in Range(filtered_docs) : d.score <= f.score
        /\ context = List(filtered_docs)

C2_Witness ==
    /\ pc = "generate_wait"
    /\ Len(similar_docs) = 3
    /\ Relevant(similar_docs) = {}
    /\ similar_docs[1].score > similar_docs[3].score
    /\ Len(filtered_docs) = 2

\* C3: the context handed to the answer generator is empty only if the
\* search returned no candidate.
C3_ContextNonEmpty ==
    (FilterRan /\ Len(similar_docs) > 0) => Len(context.val) > 0

C3_Witness ==
    /\ pc = "generate_wait"
    /\ Len(similar_docs) > 0
    /\ Relevant(similar_docs) = {}
    /\ Len(context.val) > 0

\* C4: an invocation with an empty or whitespace-only query issues no
\* embedding, search or generation call and returns None.
C4_BlankQueryNoCalls ==
    BlankQuery =>
        /\ log = <<>>
        /\ pc \in {"idle", "embed", "done"}
        /\ result = NoneVal

C4_Witness ==
    /\ pc = "done"
    /\ rag_pipeline # "None"
    /\ query.ws > 0
    /\ query.body = 0

\* C5: when the similarity search fails, the invocation returns None and
\* no generation call is issued.
C5_SearchFailureAborts ==
    search_reply = Raised =>
        /\ Count(log, "generate") = 0
        /\ result = NoneVal

\* C6: when the embedding call fails, the invocation returns None and
\* neither a search call nor a generation call is issued.
C6_EmbeddingFailureAborts ==
    (embed_reply # NoReply /\ ~Truthy(EmbeddingResult(embed_reply))) =>
        /\ Count(log, "search") = 0
        /\ Count(log, "generate") = 0
        /\ pc = "done"
        /\ result = NoneVal

C6_Witness ==
    /\ pc = "done"
    /\ embed_reply = Raised
    /\ log = <<"embed", "embed_ret">>

\* C7: process_query returns something other than None only when the
\* generation call of the same invocation answered with non-empty text, and
\* then it returns exactly that text.
C7_NoPartialAnswer ==
    result # NoneVal =>
        /\ pc = "done"
        /\ IsAnswer(llm_reply)
        /\ result = llm_reply

C7_Witness ==
    /\ pc = "done"
    /\ result = Str("a2")

\* C8: within one invocation each external call is issued at most once, and
\* an answer is returned only after all three calls were issued in that
\* same invocation, also when the manager has served a request before.
C8_NoRetryNoCache ==
    /\ \A c \in {"embed", "search", "generate"} : Count(log, c) <= 1
    /\ result # NoneVal => log = FullLog

C8_Witness ==
    /\ invocations = 2
    /\ pc = "done"
    /\ result # NoneVal
    /\ log = FullLog

\* C9: the external calls of an invocation happen in the order embed,
\* search, generate; a call is issued only after the previous one returned.
Rank(ev) == CHOOSE i \in DOMAIN FullLog : FullLog[i] = ev
Pending(ev) ==
    \/ ev = "embed" /\ pc = "embed_wait"
    \/ ev = "search" /\ pc = "search_wait"
    \/ ev = "generate" /\ pc = "generate_wait"

C9_StageOrder ==
    /\ \A i, j \in DOMAIN log : i < j => Rank(log[i]) < Rank(log[j])
    /\ \A i \in DOMAIN log :
           log[i] \in {"embed", "search", "generate"} =>
               IF i = Len(log) THEN Pending(log[i])
               ELSE Rank(log[i + 1]) = Rank(log[i]) + 1
    /\ Count(log, "search") > 0 => Count(log, "embed_ret") > 0
    /\ Count(log, "generate") > 0 => Count(log, "search_ret") > 0

C9_Witness ==
    /\ pc = "done"
    /\ log = FullLog

\* C10: on a manager whose initialize_services has not returned True,
\* process_query returns None without issuing any external call.
C10_NotInitialized ==
    init_result # "True" =>
        /\ log = <<>>
        /\ pc \in {"idle", "done"}
        /\ result = NoneVal

C10_Witness ==
    /\ pc = "done"
    /\ init_result = "False"
    /\ embedding_service # "None"
    /\ query.body > 0

\* C11: every started invocation runs to its return: at every point before
\* the return a further step is possible (the invocation waits for nothing but
\* the answer of the provider it called, and an exception leaves it at the
\* return), every step moves it to a later stage, and what it returns is
\* either a non-empty answer or None.
StageRank(stage) ==
    CASE stage = "idle" -> 0
      [] stage = "embed" -> 1
      [] stage = "embed_wait" -> 2
      [] stage = "search" -> 3
      [] stage = "search_wait" -> 4
      [] stage = "generate" -> 5
      [] stage = "generate_wait" -> 6
      [] stage = "done" -> 7
      [] OTHER -> 8

C11_RunsToOutcome ==
    /\ [](pc \notin {"idle", "done"} => ENABLED Progress)
    /\ [][pc \notin {"idle", "done"} => StageRank(pc') > StageRank(pc)]_vars
    /\ [](pc = "done" => (result = NoneVal \/ IsAnswer(result)))

C11_Witness ==
    /\ pc = "done"
    /\ llm_reply = Raised
    /\ result = NoneVal

\* C12: the filtered documents are a selection without repetition of the
\* candidates the search of the same invocation returned, at most top_k of
\* them.
C12_FilteredSelection ==
    FilterRan =>
        /\ Range(filtered_docs) \subseteq Range(similar_docs)
        /\ Cardinality(Range(filtered_docs)) = Len(filtered_docs)
        /\ DistinctIds(filtered_docs)
        /\ Len(filtered_docs) <= top_k
        /\ context = List(filtered_docs)

C12_Witness ==
    /\ pc = "generate_wait"
    /\ top_k >= 2
    /\ Len(similar_docs) = top_k
    /\ Len(filtered_docs) = top_k - 1

\* C13: for a non-empty context, the text rendered at tier simple contains
\* the URL of no candidate, and the text rendered at tier medium or hard
\* contains the URL of every candidate of the context.
Rendered == prompt.context_text
TextsOf(block) == {block[j].text : j \in DOMAIN block}
UrlsRendered == {u \in UNION {TextsOf(Rendered[i]) : i \in DOMAIN Rendered} : u.field = "url"}

C13_TierGatedUrls ==
    (prompt # NoneVal /\ Len(context.val) > 0) =>
        /\ complexity_level = "simple" => UrlsRendered = {}
        /\ complexity_level \in {"medium", "hard"} =>
               UrlsRendered = {Url(context.val[i].id) : i \in DOMAIN context.val}

C13_Witness ==
    /\ prompt # NoneVal
    /\ complexity_level = "medium"
    /\ Len(context.val) = 2
    /\ Cardinality(UrlsRendered) = 2

\* C15: the rendered context has one block per candidate of the filtered
\* context, in the same order, and the block of a candidate carries its
\* position, title and similarity score, at every tier.
C15_BlockPerCandidate ==
    prompt # NoneVal =>
        /\ Len(Rendered) = Len(filtered_docs)
        /\ \A i \in DOMAIN Rendered :
               /\ Rendered[i][1].n = i
               /\ Rendered[i][1].score = filtered_docs[i].score
               /\ Rendered[i][1].text = Title(filtered_docs[i].id)
               /\ TextsOf(Rendered[i]) \ {Url(filtered_docs[i].id)} =
                      {Title(filtered_docs[i].id), Client(filtered_docs[i].id),
                       Description(filtered_docs[i].id), Technologies(filtered_docs[i].id)}

C15_Witness ==
    /\ prompt # NoneVal
    /\ complexity_level = "simple"
    /\ Len(filtered_docs) = 3
    /\ Len(Rendered) = 3

\* C16: the text submitted to the embedding provider is the query itself
\* when the query has at most 8000 characters and its first 8000 characters
\* otherwise; more than 8000 characters are never submitted.
IsPrefixOf(p, text) ==
    /\ p.ws <= text.ws
    /\ p.body <= text.body
    /\ p.body > 0 => p.ws = text.ws

C16_Truncation ==
    submitted # NoneVal =>
        /\ TextLen(submitted.val) <= max_length
        /\ IsPrefixOf(submitted.val, query)
        /\ TextLen(query) <= max_length => submitted.val = query
        /\ TextLen(query) > max_length => TextLen(submitted.val) = max_length

C16_Witness ==
    /\ pc = "embed_wait"
    /\ query.ws > 0
    /\ TextLen(query) > max_length
    /\ TextLen(submitted.val) = max_length

\* C18: no step of a process_query invocation changes a field of the
\* manager or of its collaborators, so what an invocation filters and
\* returns is fixed by its own arguments and the answers to its own calls.
C18_ManagerUnchanged ==
    [][(pc # "idle" \/ pc' # "idle") => manager' = manager]_vars

C18_Witness ==
    /\ invocations = 2
    /\ pc = "done"
    /\ rag_pipeline # "None"
    /\ llm_reply = Raised

\* The well-formed [label](url) occurrences of a text, defined without the
\* scan: "[", a non-empty label free of "]", "](", a non-empty url free of
\* ")", ")".
Occurrences(t) ==
    LET opens == {i \in 1..Len(t) : t[i] = "["}
        closes == {i \in 1..(Len(t) - 1) : t[i] = "]" /\ t[i + 1] = "("}
        ends == {i \in 1..Len(t) : t[i] = ")"}
    IN  {m \in [start : opens, close : closes, end : ends] :
            /\ m.start + 1 < m.close
            /\ m.close + 2 < m.end
            /\ \A i \in (m.start + 1)..(m.close - 1) : t[i] # "]"
            /\ \A i \in (m.close + 2)..(m.end - 1) : t[i] # ")"}
Overlap(m, n) == m # n /\ m.start <= n.end /\ n.start <= m.end
NonOverlapping(occ) == \A m, n \in occ : ~Overlap(m, n)
LabelUrl(t, m) ==
    SubSeq(t, m.start + 1, m.close - 1) \o <<":", " ">> \o SubSeq(t, m.close + 2, m.end - 1)
\* the entries of the occurrences, leftmost first
LeftToRight(t, occ) ==
    [i \in 1..Cardinality(occ) |->
        LabelUrl(t, CHOOSE m \in occ : Cardinality({n \in occ : n.start < m.start}) = i - 1)]

\* C14 as stated: on a text with exactly N well-formed [label](url)
\* occurrences extract_sources_from_response returns exactly N entries in
\* left-to-right order, and on a text with none it returns an empty list.
C14_AllOccurrencesOrEmptyList ==
    sources # NotCalled =>
        sources = List(LeftToRight(link_text, Occurrences(link_text)))

\* C14 amended: on a text with no occurrence the function returns None; on
\* a text whose N >= 1 occurrences do not overlap it returns exactly their
\* N entries "label: url" in left-to-right order.
C14_NonOverlappingOrNone ==
    sources # NotCalled =>
        LET occ == Occurrences(link_text)
        IN  /\ occ = {} => sources = NoneVal
            /\ (occ # {} /\ NonOverlapping(occ)) =>
                   sources = List(LeftToRight(link_text, occ))

\* two different links separated by other text have been extracted
C14_Witness ==
    /\ sources # NotCalled
    /\ sources # NoneVal
    /\ Len(sources.val) = 2
    /\ sources.val[1] # sources.val[2]
    /\ Len(link_text) > 12
    /\ NonOverlapping(Occurrences(link_text))

\* get_rag_manager has completed a successful initialization
SingletonReady == rag_manager # 0 /\ instances[rag_manager] = "True"

\* C17: once get_rag_manager has completed one successful initialization,
\* the global keeps that instance, get_rag_manager runs initialize_services
\* no more, and every request whose dependency is resolved from then on, in
\* any interleaving, is handed that instance.
C17_LazySingleton ==
    [][SingletonReady =>
         /\ rag_manager' = rag_manager
         /\ init_calls' = init_calls
         /\ \A r \in Slots :
               (http[r].stage = "depends" /\ http'[r].stage # "depends") =>
                   http'[r].manager = rag_manager]_apivars

\* two requests in flight hold the one initialized instance, while a health
\* check has built a manager of its own
C17_Witness ==
    /\ SingletonReady
    /\ init_calls = 1
    /\ Len(instances) > 1
    /\ \E r1, r2 \in Slots :
          /\ r1 # r2
          /\ http[r1].stage = "endpoint" /\ http[r1].manager = rag_manager
          /\ http[r2].stage = "endpoint" /\ http[r2].manager = rag_manager

\* C19: the tier handle_message passes to process_query for a user is a
\* preference stored for that user, in user_settings or in the users
\* table, whenever one is stored, and hard only when none is.
C19_StoredPreference ==
    [][(bot_call' # bot_call /\ bot_call' # NoneVal) =>
         LET u == bot_call'.user
             stored == {user_settings[x] : x \in DOMAIN user_settings \cap {u}}
                       \cup {users[i].complexity_level : i \in UserRows(users, TelegramId(u))}
         IN  IF stored # {}
             THEN bot_call'.complexity_level \in stored
             ELSE bot_call'.complexity_level = "hard"]_botvars

\* C20: every tier stored for a user, in user_settings or in the users
\* table, and every tier passed to process_query, by handle_message or by
\* chat_endpoint, is one of simple, medium, hard.
C20_ClosedEnumeration ==
    /\ \A u \in DOMAIN user_settings : user_settings[u] \in Levels
    /\ \A i \in 1..Len(users) : users[i].complexity_level \in Levels
    /\ bot_call # NoneVal => bot_call.complexity_level \in Levels
    /\ \A r \in Slots : http[r].stage = "endpoint" => http[r].level \in Levels

\* the requests of the current fetch_page call, in order
Gets == SelectSeq(fetch_log, LAMBDA e : e.ev = "get")
GotStatus200(e) == e.reply.kind = "response" /\ e.reply.status = 200
AtMostMaxRetries == Len(Gets) <= max_retries
NoneIffAllFailed ==
    fetch_pc = "returned" =>
        /\ fetch_result = NoneVal <=>
              (Len(Gets) = max_retries /\ \A i \in 1..Len(Gets) : ~PageRead(Gets[i].reply))
        /\ fetch_result # NoneVal =>
              (PageRead(Gets[Len(Gets)].reply) /\ fetch_result = Gets[Len(Gets)].reply.text)

\* C21 as stated: fetch_page makes at most three attempts, none after the
\* first HTTP 200 response, whose content it returns, and returns None
\* exactly when all three attempts failed.
C21_StopsAtFirst200 ==
    /\ AtMostMaxRetries
    /\ \A i \in 1..Len(Gets) : GotStatus200(Gets[i]) => i = Len(Gets)
    /\ NoneIffAllFailed

\* C21 amended: at most three attempts; none after the first attempt that
\* got HTTP 200 and read the text of the response, which is returned; a
\* 200 response whose text cannot be read is a failed attempt like any
\* other; None is returned exactly when all three attempts failed.
C21_StopsAtFirstPageRead ==
    /\ AtMostMaxRetries
    /\ \A i \in 1..Len(Gets) : PageRead(Gets[i].reply) => i = Len(Gets)
    /\ NoneIffAllFailed

\* the third attempt succeeded after two failures of different kinds
C21_Witness ==
    /\ fetch_pc = "returned"
    /\ Len(Gets) = max_retries
    /\ fetch_result = Str("html1")
    /\ Gets[1].reply.kind = "response" /\ Gets[1].reply.status = 503
    /\ GotStatus200(Gets[2])

C23_OnlyInitializedHandedOut ==
    \A r \in Slots : http[r].manager # 0 => instances[http[r].manager] = "True"

\* C24: in webhook mode every message that handle_webhook_update passes to
\* handle_message is handled by a bot whose RAG manager was created and
\* successfully initialized beforehand.
C24_WebhookManagerReady ==
    (bot_mode = "webhook" /\ bot_log # << >>) => bot_rag_manager = "ready"

\* C25: once a user has selected a tier through a level_ callback, that
\* tier stays the one in effect for the user's messages until the user's
\* next selection; /start, message handling and the creation of the users
\* row do not change it.
C25_StickyTier ==
    \A u \in DOMAIN selected : LevelFor(user_settings, u) = selected[u]

\* C26: initialize_services runs the checks in the order embedding, vector
\* index, LLM and runs none after the first check that failed; it returns
\* True exactly when all three checks passed, and rag_pipeline is set
\* exactly when it returned True.
CheckOrder == <<"embedding", "vector index", "llm">>
C26_ChecksInOrderUntilFailure ==
    /\ Len(init_log) <= Len(CheckOrder)
    /\ \A i \in 1..Len(init_log) :
          /\ init_log[i].check = CheckOrder[i]
          /\ i < Len(init_log) => init_log[i].passed
    /\ init_result = "not_called" => init_log = << >>
    /\ init_result = "True" <=>
          (Len(init_log) = Len(CheckOrder) /\ \A i \in 1..Len(init_log) : init_log[i].passed)
    /\ rag_pipeline # "None" <=> init_result = "True"

\* the vector index check failed after the embedding check passed
C26_Witness ==
    /\ init_result = "False"
    /\ init_log = <<Check("embedding", TRUE), Check("vector index", FALSE)>>
    /\ rag_pipeline = "None"

\* positions of an event in the record of the last handled message
Events(ev) == {i \in 1..Len(bot_log) : bot_log[i] = ev}
SavedAfterAnswerSent(record) ==
    /\ \A k \in 1..Len(record) :
          record[k] = "save_message" =>
              \E i, j \in 1..Len(record) :
                  /\ i < j /\ j < k
                  /\ record[i] = "process_query"
                  /\ record[j] = "answer_sent"
    /\ \A k \in 1..Len(record) : record[k] \notin {"apology_sent", "error_reply"}

\* C27: save_message is called for a message only after process_query
\* returned an answer for it and the reply was sent, and a Message row is
\* added only by such a request: never by one that got no answer or raised.
C27_SavedOnlyAfterAnswerSent ==
    /\ [](Events("save_message") # {} => SavedAfterAnswerSent(bot_log))
    /\ [][messages' # messages =>
             /\ \E k \in 1..Len(bot_log') : bot_log'[k] = "save_message"
             /\ SavedAfterAnswerSent(bot_log')
             /\ Len(messages') = Len(messages) + 1
             /\ SubSeq(messages', 1, Len(messages)) = messages]_<<botvars, dbvars>>

\* an answered and sent exchange was stored
C27_Witness ==
    /\ Len(messages) = 1
    /\ bot_log = <<"placeholder", "process_query", "answer_sent", "save_message",
                   "placeholder_deleted">>

\* C28: whenever the placeholder of a handled message was sent, its
\* deletion is attempted exactly once, as the last thing the handler does,
\* whether the answer was sent, there was no answer, or processing raised.
DeleteEvents == Events("placeholder_deleted") \cup Events("delete_failed")
C28_PlaceholderDeletedOnce ==
    (bot_log # << >> /\ bot_log[1] = "placeholder") =>
        /\ Cardinality(DeleteEvents) = 1
        /\ Len(bot_log) \in DeleteEvents

\* processing raised and the placeholder was deleted after the error reply
C28_Witness ==
    /\ Events("error_reply") # {}
    /\ bot_log[Len(bot_log)] = "placeholder_deleted"

\* the session a stored message belongs to
SessionOf(table, m) == table[CHOOSE i \in 1..Len(table) : table[i].session_id = m.session_id]

\* C30: a session is created only for a user who has none created within
\* the last 24 hours; a message is stored under the most recently created
\* session of its user, which is at most 24 hours old; so a message sent
\* within 24 hours of the creation of one of the user's sessions is stored
\* under that session.
C30_OneSessionPerWindow ==
    /\ [][sessions' # sessions =>
             /\ Len(sessions') = Len(sessions) + 1
             /\ SubSeq(sessions', 1, Len(sessions)) = sessions
             /\ sessions'[Len(sessions')].created_at = clock
             /\ \A i \in 1..Len(sessions) :
                   sessions[i].user_id = sessions'[Len(sessions')].user_id =>
                       sessions[i].created_at < clock - ActiveHours]_<<botvars, dbvars>>
    /\ [][messages' # messages =>
             LET m == messages'[Len(messages')]
                 s == SessionOf(sessions', m)
             IN  /\ \E i \in UserRows(users', TelegramId(bot_call'.user)) :
                       users'[i].id = s.user_id
                 /\ s.created_at >= clock - ActiveHours
                 /\ \A j \in 1..Len(sessions') :
                       sessions'[j].user_id = s.user_id =>
                           sessions'[j].created_at <= s.created_at]_<<botvars, dbvars>>
    /\ [](\A k \in 1..Len(messages), j \in 1..Len(sessions) :
             (/\ sessions[j].user_id = SessionOf(sessions, messages[k]).user_id
              /\ sessions[j].created_at <= messages[k].created_at
              /\ messages[k].created_at <= sessions[j].created_at + ActiveHours)
             => messages[k].session_id = sessions[j].session_id)

\* two messages exactly 24 hours apart were stored under one session
C30_Witness ==
    /\ Len(messages) = 2
    /\ Len(sessions) = 1
    /\ messages[1].session_id = messages[2].session_id
    /\ messages[2].created_at = sessions[1].created_at + ActiveHours

\* C29: the users table never holds two rows with one telegram_id; a
\* get_or_create_user call that returns a row for a telegram_id already in
\* the table returns that row and changes no row, and one for a new
\* telegram_id adds exactly the row it returns, with level hard.
C29_OneRowPerTelegramId ==
    /\ [](\A i, j \in 1..Len(users) : users[i].telegram_id = users[j].telegram_id => i = j)
    /\ [][db_return'.kind = "User" =>
             IF UserRows(users, db_return'.telegram_id) # {}
             THEN /\ users' = users
                  /\ \E i \in 1..Len(users) : users[i] = db_return'
             ELSE /\ users' = Append(users, db_return')
                  /\ db_return'.complexity_level = "hard"]_<<botvars, dbvars>>

\* a call returned the existing row of a user whose level had been changed
C29_Witness ==
    /\ Len(users) = 1
    /\ users[1].complexity_level = "simple"
    /\ db_return = users[1]

====
